---- MODULE Spec2Model ----
\* Stability tracker of schallpappenspieler (state_tracker.py): the
\* debounce / dropout / forget state machine that turns per-cycle QR
\* observations into TriggerEvents.  Timestamps are integers (clock ticks);
\* the three durations are drawn from bounded sets when the tracker is built.
\* A behaviour of Spec feeds one side, left or right, chosen at the start:
\* update reads and writes only the SideState it selects by `side`.
EXTENDS Integers, FiniteSets, Sequences, TLC

\* ---------------------------------------------------------------- bounds
MaxTime == 5
MaxReads == 2
FrameWidth == 4
FrameHeight == 3
MaxItems == 2
MaxArea == 2
MaxStep == 2
MaxStable == 2
MaxDropout == 1
MaxForget == 2

\* ------------------------------------------------------------ value sets
\* Optional[str] = None
NoText == "none"
\* Optional[float] = None
NoTime == 0 - 1
Texts == {"A", "B"}
Sides == {"left", "right"}

VARIABLES
    left,             \* StateTracker.left  : SideState
    right,            \* StateTracker.right : SideState
    stable_seconds,   \* StateTracker.stable_seconds
    dropout_seconds,  \* StateTracker.dropout_seconds
    forget_seconds,   \* StateTracker.forget_seconds
    side,             \* argument of the calls of this run: the side fed
    now,              \* argument `now` of the last update call
    detected_text,    \* argument `detected_text` of the last update call
    event,            \* value returned by the last update call
    kind,             \* which case of update the last call fell into
    hist,             \* observer: what the calls so far amount to
    feed,             \* what the caller passes from now on: "any", or the
                      \* one detected_text it keeps passing
    latest_frame,     \* _LatestFrame: _frame, _version, _lock
    latest_detections, \* _LatestDetections: _detections, _version, _lock
    stop_event,       \* threading.Event shared by the three threads
    gui,              \* whether main built a DebugGUI (show_gui)
    mirror,           \* cam_cfg "mirror"
    key,              \* key press waiting for cv2.waitKey
    last_action,      \* main: text of the last successful load
    capT,             \* capture thread: position and locals of run()
    detT,             \* detection thread: position and locals of run()
    mainT,            \* main thread: position and locals of the loop
    logs,             \* observer: publishes, processed versions, loads
    pure              \* last call of a pure function: arguments and result

trackerVars == <<left, right, stable_seconds, dropout_seconds, forget_seconds,
                 side, now, detected_text, event, kind, hist, feed>>

pipeVars == <<latest_frame, latest_detections, stop_event, gui, mirror, key,
              last_action, capT, detT, mainT, logs, pure>>

vars == <<left, right, stable_seconds, dropout_seconds, forget_seconds,
          side, now, detected_text, event, kind, hist, feed,
          latest_frame, latest_detections, stop_event, gui, mirror, key,
          last_action, capT, detT, mainT, logs, pure>>

\* ------------------------------------------------------------ SideState
InitSide ==
    [current_text |-> NoText, first_seen |-> NoTime,
     last_seen |-> NoTime, triggered |-> FALSE]

\* ---------------------------------------------------------- TriggerEvent
NoEvent == [side |-> "none", text |-> NoText]

TriggerEvent(sd, text) == [side |-> sd, text |-> text]

\* --------------------------------------------------- StateTracker.update
\* state = self.left if side == "left" else self.right
SideOf(sd) == IF sd = "left" THEN left ELSE right

\* Variant: the forget threshold compared with >= instead of >.
ForgetDueInclusive(state, t) == t - state.last_seen >= forget_seconds

\* time_since_seen > self.forget_seconds
ForgetDue(state, t) == t - state.last_seen > forget_seconds

\* Variant: the dropout threshold compared with >= instead of >.
DropoutDueInclusive(state, t) == t - state.last_seen >= dropout_seconds

\* time_since_seen > self.dropout_seconds
DropoutDue(state, t) == t - state.last_seen > dropout_seconds

\* Variant: the forget branch without its `state.triggered = False`.
ForgetResetKeepsTriggered(state) ==
    [state EXCEPT !.current_text = NoText, !.first_seen = NoTime,
                  !.last_seen = NoTime]

\* the four assignments of the forget branch
ForgetReset(state) ==
    [state EXCEPT !.current_text = NoText, !.first_seen = NoTime,
                  !.last_seen = NoTime, !.triggered = FALSE]

\* Variant: the dropout branch also clears `triggered`.
DropoutClearUntriggers(state) ==
    [state EXCEPT !.first_seen = NoTime, !.triggered = FALSE]

\* Variant: the dropout branch left out (first_seen survives the dropout).
DropoutClearSkipped(state) == state

\* state.first_seen = None
DropoutClear(state) == [state EXCEPT !.first_seen = NoTime]

\* Variant: the dropout threshold is tested before the forget threshold.
NullUpdateDropoutFirst(state, t) ==
    IF state.last_seen = NoTime THEN state
    ELSE IF DropoutDue(state, t) THEN DropoutClear(state)
    ELSE IF ForgetDue(state, t) THEN ForgetReset(state)
    ELSE state

\* if detected_text is None: ... return None
NullUpdate(state, t) ==
    IF state.last_seen = NoTime THEN state
    ELSE IF ForgetDue(state, t) THEN ForgetReset(state)
    ELSE IF DropoutDue(state, t) THEN DropoutClear(state)
    ELSE state

\* if state.current_text != detected_text: ... return None
NewCandidate(state, text, t) ==
    [state EXCEPT !.current_text = text, !.first_seen = t,
                  !.last_seen = t, !.triggered = FALSE]

\* if state.first_seen is None: state.first_seen = now
Reconfirm(state, t) == [state EXCEPT !.last_seen = t, !.first_seen = t]

\* Variant: the stability threshold compared with > instead of >=.
StableReachedStrict(state, t) ==
    ~state.triggered /\ t - state.first_seen > stable_seconds

\* not state.triggered and (now - state.first_seen) >= self.stable_seconds
StableReached(state, t) ==
    ~state.triggered /\ t - state.first_seen >= stable_seconds

\* Variant: the `return None` after `state.first_seen = now` is missing, so
\* the re-confirming call goes on to the trigger test.
MatchUpdateFallsThrough(state, sd, text, t) ==
    LET s1 == IF state.first_seen = NoTime THEN Reconfirm(state, t)
              ELSE [state EXCEPT !.last_seen = t]
    IN IF StableReached(s1, t)
       THEN [state |-> [s1 EXCEPT !.triggered = TRUE],
             event |-> TriggerEvent(sd, text)]
       ELSE [state |-> s1, event |-> NoEvent]

\* state.last_seen = now, then the first_seen test and the trigger test
MatchUpdate(state, sd, text, t) ==
    IF state.first_seen = NoTime
    THEN [state |-> Reconfirm(state, t), event |-> NoEvent]
    ELSE IF StableReached(state, t)
    THEN [state |-> [state EXCEPT !.last_seen = t, !.triggered = TRUE],
          event |-> TriggerEvent(sd, text)]
    ELSE [state |-> [state EXCEPT !.last_seen = t], event |-> NoEvent]

\* Variant: the `return None` of the new-candidate branch is missing, so the
\* call goes on to the trigger test.
updateNewFallsThrough(state, sd, text, t) ==
    IF text = NoText
    THEN [state |-> NullUpdate(state, t), event |-> NoEvent]
    ELSE IF state.current_text # text
    THEN MatchUpdate(NewCandidate(state, text, t), sd, text, t)
    ELSE MatchUpdate(state, sd, text, t)

\* Variant: the `if detected_text is None` block is missing, so None is
\* handled like a decoded text.
updateNoneAsText(state, sd, text, t) ==
    IF state.current_text # text
    THEN [state |-> NewCandidate(state, text, t), event |-> NoEvent]
    ELSE MatchUpdate(state, sd, text, t)

\* update(side, detected_text, now): the new SideState and the return value
update(state, sd, text, t) ==
    IF text = NoText
    THEN [state |-> NullUpdate(state, t), event |-> NoEvent]
    ELSE IF state.current_text # text
    THEN [state |-> NewCandidate(state, text, t), event |-> NoEvent]
    ELSE MatchUpdate(state, sd, text, t)

\* ------------------------------------------------- the caller's view
\* Which case of update a call falls into, read off the side's fields before
\* the call (the conditions of update, in the order it tests them).
CallKind(state, text, t) ==
    IF text = NoText
    THEN IF state.last_seen = NoTime THEN "idle"
         ELSE IF t - state.last_seen > forget_seconds THEN "forget"
         ELSE IF t - state.last_seen > dropout_seconds THEN "dropout"
         ELSE "flicker"
    ELSE IF state.current_text # text THEN "new"
         ELSE IF state.first_seen = NoTime THEN "reconfirm"
         ELSE "match"

\* What the calls made so far amount to, computed from the arguments and the
\* return values of the calls (gapBad alone also reads first_seen, the field
\* its statement is about):
\*   cur     text last observed and not forgotten since
\*   last    time of the last observation of cur
\*   t0      time of the first observation of the running episode: cur seen
\*           as a new text and since then only cur again or null calls whose
\*           idle time stayed within dropout_seconds (NoTime: no episode)
\*   pure    the episode began with nothing remembered and every call since
\*           observed cur, at a fixed step
\*   step    that step, once two calls fix it
\*   nulls   the episode had a null call;  again: and an observation after it
\*   evs     TriggerEvents returned during the episode (2 stands for more)
\*   due     an observation of the episode after the first had
\*           t - t0 >= stable_seconds
\*   dropped a null call with dropout < idle <= forget came after `last`
\*   reobs   time cur was observed again after such a null call
\*   trig    text of the last TriggerEvent, while neither a different text
\*           was observed nor the side forgotten
\*   dbl     a TriggerEvent was returned for the text `trig` already held
\*   fgt     the text `trig` held when the side was forgotten
\*   refresh the episode began by observing fgt again
\*   gapBad  two consecutive observations of cur made since first_seen was
\*           last set lie more than dropout_seconds apart
NoHist ==
    [cur |-> NoText, last |-> NoTime, t0 |-> NoTime, pure |-> FALSE,
     step |-> NoTime, nulls |-> FALSE, again |-> FALSE, evs |-> 0,
     due |-> FALSE, dropped |-> FALSE, reobs |-> NoTime, trig |-> NoText,
     dbl |-> FALSE, fgt |-> NoText, refresh |-> FALSE, gapBad |-> FALSE]

Count(ev) == IF ev = NoEvent THEN 0 ELSE 1

Min(a, b) == IF a < b THEN a ELSE b

HistNull(h, t, fs) ==
    IF h.last = NoTime THEN h
    ELSE IF t - h.last > forget_seconds
    THEN [NoHist EXCEPT !.fgt = h.trig, !.dbl = h.dbl]
    ELSE IF t - h.last > dropout_seconds
    THEN [h EXCEPT !.t0 = NoTime, !.pure = FALSE, !.step = NoTime,
                   !.nulls = FALSE, !.again = FALSE, !.evs = 0,
                   !.due = FALSE, !.dropped = TRUE, !.reobs = NoTime,
                   !.refresh = FALSE,
                   !.gapBad = (fs # NoTime /\ h.gapBad)]
    ELSE [h EXCEPT !.pure = FALSE, !.step = NoTime,
                   !.nulls = (h.t0 # NoTime),
                   !.gapBad = (fs # NoTime /\ h.gapBad)]

HistObserve(h, text, t, ev, fs) ==
    IF text # h.cur
    THEN [NoHist EXCEPT !.cur = text, !.last = t, !.t0 = t,
                        !.pure = (h.cur = NoText), !.evs = Count(ev),
                        !.trig = IF ev = NoEvent THEN NoText ELSE text,
                        !.dbl = h.dbl,
                        !.refresh = (h.fgt = text)]
    ELSE LET inEp == h.t0 # NoTime
             stays == h.pure /\ (h.step = NoTime \/ t - h.last = h.step)
         IN [h EXCEPT
               !.last = t,
               !.pure = stays,
               !.step = IF stays THEN t - h.last ELSE NoTime,
               !.again = inEp /\ (h.again \/ h.nulls),
               !.evs = IF inEp THEN Min(2, h.evs + Count(ev)) ELSE 0,
               !.due = inEp /\ (h.due \/ t - h.t0 >= stable_seconds),
               !.dropped = FALSE,
               !.reobs = IF h.dropped THEN t ELSE h.reobs,
               !.trig = IF ev = NoEvent THEN h.trig ELSE text,
               !.dbl = h.dbl \/ (ev # NoEvent /\ h.trig = text),
               !.gapBad = (fs # t /\ (h.gapBad \/ t - h.last > dropout_seconds))]

HistNext(h, text, t, ev, fs) ==
    IF text = NoText THEN HistNull(h, t, fs) ELSE HistObserve(h, text, t, ev, fs)

\* ------------------------------------------------- pipeline: the values
\* self._frame = None
NoFrame == [id |-> 0, flipped |-> FALSE]

\* A frame returned by cap.read(): the n-th successful read, flipped or not.
Frame(n, flip) == [id |-> n, flipped |-> flip]

\* A list of detections as a Python value: None, or a list.  src is the id
\* of the frame the detector was run on (0: no detector run made the list).
NoneDetections == [isNone |-> TRUE, src |-> 0, items |-> <<>>]

Detections(items, src) == [isNone |-> FALSE, src |-> src, items |-> items]

\* self._detections = []
EmptyDetections == Detections(<<>>, 0)

\* _LatestFrame.__init__
InitLatestFrame == [frame |-> NoFrame, version |-> 0, lock |-> "free"]

\* _LatestDetections.__init__
InitLatestDetections ==
    [detections |-> EmptyDetections, version |-> 0, lock |-> "free"]

\* the locals of _start_capture_thread.run when the thread starts, and its
\* camera: nread frames delivered so far, released once cap.release() ran;
\* late: publishes the thread completed after the stop event was set
InitCapture ==
    [pc |-> "top", frame |-> NoFrame, nread |-> 0, released |-> FALSE,
     late |-> 0]

\* the locals of _start_detection_thread.run when the thread starts
\* (last_seen = -1); startN: publishes completed when the last snapshot began;
\* late: publishes the thread completed after the stop event was set
InitDetection ==
    [pc |-> "top", last_seen |-> 0 - 1, frame |-> NoFrame, version |-> 0,
     detections |-> EmptyDetections, startN |-> 0, late |-> 0]

\* the locals of main before its loop (last_detection_version = -1,
\* last_frame_version = -1); the other fields are set by the loop.
\*   startN  frame publishes completed when the last snapshot of the frame
\*           slot was taken;  reads, dreads: snapshots made of the two slots
\*   reread  FALSE once two snapshots of the frame slot with no publish in
\*           between returned different pairs
\*   skipped TRUE once an iteration that found no new frame ended without
\*           a poll of the keyboard
\*   config  what load_config did: "unread", "loaded" or "failed"
InitMain ==
    [pc |-> "top", frame |-> NoFrame, frame_version |-> 0,
     last_frame_version |-> 0 - 1, last_detection_version |-> 0 - 1,
     detections |-> EmptyDetections, det_version |-> 0,
     new_detections |-> FALSE,
     left_event |-> NoEvent, right_event |-> NoEvent,
     startN |-> 0, reads |-> 0, dreads |-> 0,
     reread |-> TRUE, skipped |-> FALSE, config |-> "loaded"]

\* What the threads have done so far:
\*   frames     the publishes to the frame slot: version set, value stored
\*   dets       the publishes to the detections slot: version set, value
\*   processed  the frame versions for which main called tracker.update
\*   events     TriggerEvents returned to main;  loads: load_track calls
\*   trig       per side, the text whose event was the last returned, while
\*              neither a different text was fed nor the side was forgotten
\*   dbl        an event was returned for the text trig already held
NoLogs ==
    [frames |-> <<>>, dets |-> <<>>, processed |-> <<>>,
     events |-> <<>>, loads |-> <<>>,
     trig |-> [sd \in Sides |-> NoText], dbl |-> FALSE]

\* _pick_detection returning None
NoDetection == [text |-> NoText, center |-> <<0, 0>>, area |-> 0]

\* detection on the whole frame of the given size
FullFrame(w, h) == [crop |-> FALSE, x1 |-> 0, y1 |-> 0, x2 |-> w, y2 |-> h]

\* No pure function has been called: no arguments, no result.
\*   raw   what detector.detect returned, before any translation
\*   done  detections of the list the translation loop has been through
NoCall ==
    [op |-> "none", items |-> <<>>, split_x |-> 0, left |-> <<>>,
     right |-> <<>>, pick |-> NoDetection, roi |-> <<>>,
     region |-> FullFrame(0, 0), raw |-> <<>>, done |-> 0]

\* main, lines 268-287: the objects as built before the threads start
PipeStart(g, m) ==
    /\ latest_frame = InitLatestFrame
    /\ latest_detections = InitLatestDetections
    /\ stop_event = FALSE
    /\ gui = g
    /\ mirror = m
    /\ key = "none"
    /\ last_action = NoEvent
    /\ capT = InitCapture
    /\ detT = InitDetection
    /\ mainT = InitMain
    /\ logs = NoLogs
    /\ pure = NoCall

\* ------------------------------------------------------------------ Init
\* StateTracker.__init__: the three durations as supplied, both sides empty.
Init ==
    /\ PipeStart(TRUE, TRUE)
    /\ stable_seconds \in 0..MaxStable
    /\ dropout_seconds \in 0..MaxDropout
    /\ forget_seconds \in 0..MaxForget
    /\ left = InitSide
    /\ right = InitSide
    /\ side \in Sides
    /\ now = 0
    /\ detected_text = NoText
    /\ event = NoEvent
    /\ kind = "init"
    /\ hist = NoHist
    /\ feed = "any"

\* --------------------------------------------------------------- actions
\* One call tracker.update(side, text, t), t not before the previous call.
Call(text, t) ==
    LET r == update(SideOf(side), side, text, t)
    IN /\ t <= MaxTime
       /\ left' = IF side = "left" THEN r.state ELSE left
       /\ right' = IF side = "left" THEN right ELSE r.state
       /\ now' = t
       /\ detected_text' = text
       /\ event' = r.event
       /\ kind' = CallKind(SideOf(side), text, t)
       /\ hist' = HistNext(hist, text, t, r.event, r.state.first_seen)
       /\ UNCHANGED <<stable_seconds, dropout_seconds, forget_seconds, side,
                      feed>>
       /\ UNCHANGED pipeVars

\* update with a decoded text
Observe == \E text \in Texts, dt \in 0..MaxStep : Call(text, now + dt)

\* update with None (nothing detected on the side this cycle)
Miss == \E dt \in 0..MaxStep : Call(NoText, now + dt)

Next == Observe \/ Miss

Spec == Init /\ [][Next]_vars

\* ================================================================ claims
\* The side the run feeds.
S == SideOf(side)

\* C1 (as amended). Debounce: while every call so far observed the same
\* text at a fixed step, starting with nothing remembered, the number of
\* TriggerEvents returned is 1 if some call AFTER the first observation had
\* t - t0 >= stable_seconds and 0 otherwise; so exactly one event is
\* returned, by the first such call.
C1_Debounce == hist.pure => hist.evs = (IF hist.due THEN 1 ELSE 0)

C1_Witness ==
    /\ hist.pure /\ hist.step = 1 /\ stable_seconds = 2
    /\ hist.evs = 1 /\ event = NoEvent /\ now - hist.t0 > stable_seconds

\* C1 as stated: the event is returned by the first call (the first
\* observation included) with t - t0 >= stable_seconds.
C1_Original ==
    hist.pure =>
        hist.evs = (IF now - hist.t0 >= stable_seconds THEN 1 ELSE 0)

\* C2. No double trigger: no TriggerEvent is returned for a text that has
\* already triggered on the side unless a different text was observed or the
\* side was forgotten in between.
C2_NoDoubleTrigger == ~hist.dbl

\* a triggered text, cleared by a dropout, observed again for stable_seconds
\* and more: the call returns nothing
C2_Witness ==
    /\ hist.trig # NoText /\ hist.trig = detected_text
    /\ hist.reobs # NoTime /\ now - hist.reobs >= stable_seconds
    /\ now > hist.reobs /\ event = NoEvent

\* C3. Dropout reset: once the text is observed again after a dropout-only
\* null call, first_seen is the time of that re-observation, and a
\* TriggerEvent is returned only by a call at least stable_seconds later.
C3_DropoutReset ==
    hist.reobs # NoTime =>
        /\ S.first_seen = hist.reobs
        /\ event # NoEvent => now - hist.reobs >= stable_seconds

C3_Witness ==
    /\ hist.reobs # NoTime /\ event # NoEvent /\ stable_seconds > 0
    /\ event.text = hist.cur

C5_Forget ==
    /\ kind = "forget" => S = InitSide
    /\ (hist.refresh /\ hist.t0 # NoTime) =>
           hist.evs = (IF hist.due THEN 1 ELSE 0)

C5_Witness ==
    /\ hist.refresh /\ event # NoEvent /\ hist.evs = 1
    /\ now - hist.t0 >= stable_seconds /\ stable_seconds > 0

\* C6 as stated. If first_seen is set then current_text is set and no two
\* consecutive observations of current_text made since first_seen lie more
\* than dropout_seconds apart.
C6_ContinuouslyObserved ==
    S.first_seen # NoTime => (S.current_text # NoText /\ ~hist.gapBad)

\* C7. New candidate: a call whose text is set and differs from current_text
\* leaves the side as (text, now, now, false) and returns no event.
C7_NewCandidate ==
    kind = "new" =>
        /\ S = [current_text |-> detected_text, first_seen |-> now,
                last_seen |-> now, triggered |-> FALSE]
        /\ event = NoEvent

C7_Witness == kind = "new" /\ stable_seconds = 0 /\ hist.trig = NoText /\ now > 0

\* C8. Re-confirmation: a call whose text equals current_text while
\* first_seen is null sets first_seen and last_seen to now, leaves triggered
\* as it was and returns no event.
C8_Reconfirm ==
    [][kind' = "reconfirm" =>
          /\ S'.first_seen = now' /\ S'.last_seen = now'
          /\ S'.triggered = S.triggered
          /\ event' = NoEvent]_vars

C8_Witness ==
    kind = "reconfirm" /\ stable_seconds = 0 /\ ~S.triggered /\ S.first_seen = now

C10_NullNeverEmits ==
    [][detected_text' = NoText =>
          /\ event' = NoEvent
          /\ S.last_seen = NoTime => S' = S]_vars

\* a null call on a side that was forgotten before
C10_Witness ==
    /\ kind = "idle" /\ hist.fgt # NoText /\ S = InitSide /\ event = NoEvent

\* C11 (as amended). Boundary asymmetry: a null call with
\* now - last_seen = forget_seconds does not reset the side; one with
\* now - last_seen = dropout_seconds leaves first_seen as it was, PROVIDED
\* that idle time does not exceed forget_seconds (with forget_seconds <
\* dropout_seconds the forget branch is taken first and resets the side); a
\* matching call on an untriggered side with now - first_seen =
\* stable_seconds returns the TriggerEvent.
C11_Boundary ==
    [][/\ (detected_text' = NoText /\ S.last_seen # NoTime
           /\ now' - S.last_seen = forget_seconds) =>
              /\ S'.current_text = S.current_text
              /\ S'.last_seen = S.last_seen
              /\ S'.triggered = S.triggered
       /\ (detected_text' = NoText /\ S.last_seen # NoTime
           /\ now' - S.last_seen = dropout_seconds
           /\ dropout_seconds <= forget_seconds) =>
              S'.first_seen = S.first_seen
       /\ (kind' = "match" /\ ~S.triggered
           /\ now' - S.first_seen = stable_seconds) =>
              event' = TriggerEvent(side, detected_text')]_vars

\* the trigger fires exactly at the stability threshold
C11_Witness ==
    /\ kind = "match" /\ event # NoEvent /\ stable_seconds > 0
    /\ now - S.first_seen = stable_seconds /\ S.triggered

\* C11 as stated: a null call with now - last_seen = dropout_seconds never
\* clears first_seen.
C11_Original ==
    [][(detected_text' = NoText /\ S.last_seen # NoTime
        /\ now' - S.last_seen = dropout_seconds) =>
           S'.first_seen = S.first_seen]_vars

\* ============================================================== pipeline
\* main.py: the capture thread, the detection thread and the main loop,
\* joined by the two mailboxes.  The performance counters (_PerfStats,
\* _FPSCounter) and what the GUI draws are display only and left out; the
\* region of interest stays at its initial None.

\* split_ratio = split_cfg.get("ratio", 0.5), as SplitNum / SplitDen
SplitNum == 1
SplitDen == 2

\* split_x = int(width * split_ratio)
SplitX(width) == (width * SplitNum) \div SplitDen

\* QRCodeDetection: text, center (x, y), area
Observation(text, cx, area) ==
    [text |-> text, center |-> <<cx, 1>>, area |-> area]

\* What detector.detect may return for a frame: nothing, or a code on each
\* side.
DetChoices ==
    {<<>>,
     <<Observation("A", 1, 4), Observation("B", FrameWidth - 1, 4)>>}

\* variant: the left list takes the centers on the split line too
LeftOfInclusive(items, split_x) ==
    SelectSeq(items, LAMBDA d : d.center[1] <= split_x)

\* [d for d in detections if d.center[0] < split_x]
LeftOf(items, split_x) ==
    SelectSeq(items, LAMBDA d : d.center[1] < split_x)

\* [d for d in detections if d.center[0] >= split_x]
RightOf(items, split_x) ==
    SelectSeq(items, LAMBDA d : d.center[1] >= split_x)

\* variant: the last of the largest
RECURSIVE MaxByAreaLast(_, _, _)
MaxByAreaLast(items, i, best) ==
    IF i > Len(items) THEN best
    ELSE MaxByAreaLast(items, i + 1,
                       IF items[i].area >= best.area THEN items[i] ELSE best)

\* max(detections, key=lambda d: d.area): the first of the largest
RECURSIVE MaxByArea(_, _, _)
MaxByArea(items, i, best) ==
    IF i > Len(items) THEN best
    ELSE MaxByArea(items, i + 1,
                   IF items[i].area > best.area THEN items[i] ELSE best)

\* _pick_detection: None for an empty list, else the maximum by area
PickDetection(items) ==
    IF items = <<>> THEN NoDetection ELSE MaxByArea(items, 2, items[1])

\* left_det.text if left_det else None
PickText(items) == PickDetection(items).text

\* variant: update and snapshot without the lock
LockIgnored(slot) == TRUE

\* with self._lock: the lock can be taken
LockFree(slot) == slot.lock = "free"

\* variant: update returns with the lock still held
ReleasedLockKept == "held"

\* the end of a with self._lock block
ReleasedLock == "free"

\* variant: update forgets the increment
NextVersionStuck(v) == v

\* self._version += 1
NextVersion(v) == v + 1

\* variant: the list is tagged with the version after the one snapshotted
TagVersionAhead(d) == d.version + 1

\* variant: the result is tagged with the frame slot's current version
TagVersionCurrent(d) == latest_frame.version

\* out.update(detections, version): the version the result is tagged with
TagVersion(d) == d.version

\* variant: snapshot takes the frame out of the slot
AfterSnapshotConsumed(slot) == NoFrame

\* snapshot leaves the stored frame as it is
AfterSnapshot(slot) == slot.frame

\* variant: a failed load re-arms the side
TrackerAfterLoadRearms(state, ok) ==
    IF ok THEN state ELSE [state EXCEPT !.triggered = FALSE]

\* main, lines 329-337: what load_track's result does to a SideState
TrackerAfterLoad(state, ok) == state

\* variant: the version comparison is missing
SameFrameNever(m) == FALSE

\* frame_version == last_frame_version
SameFrame(m) == m.frame_version = m.last_frame_version

\* variant: the loops do not test the stop event
AfterStopCheckIgnored(stopped, body) == body

\* while not stop.is_set(): the body, or the end of run()
AfterStopCheck(stopped, body) == IF stopped THEN "done" ELSE body

\* ------------------------------------------------------- capture thread
\* while not stop.is_set():
CapCheckStop ==
    /\ capT.pc = "top"
    /\ capT' = [capT EXCEPT !.pc = AfterStopCheck(stop_event, "read")]
    /\ UNCHANGED <<latest_frame, latest_detections, stop_event, gui, mirror,
                   key, last_action, detT, mainT, logs>>
    /\ UNCHANGED <<trackerVars, pure>>

\* variant: a failed read ends the capture thread
AfterReadFailureGivesUp == "done"

\* if not ok: the thread stays in its loop
AfterReadFailure == "backoff"

\* ok, frame = cap.read(); if not ok: sleep, continue; cv2.flip if mirror
CapRead ==
    /\ capT.pc = "read"
    /\ \E ok \in BOOLEAN :
          IF ok
          THEN /\ capT.nread < MaxReads
               /\ ~capT.released
               /\ capT' = [capT EXCEPT !.pc = "update",
                                       !.nread = capT.nread + 1,
                                       !.frame = Frame(capT.nread + 1, mirror)]
          ELSE capT' = [capT EXCEPT !.pc = AfterReadFailure]
    /\ UNCHANGED <<latest_frame, latest_detections, stop_event, gui, mirror,
                   key, last_action, detT, mainT, logs>>
    /\ UNCHANGED <<trackerVars, pure>>

\* time.sleep(0.01); continue
CapBackoff ==
    /\ capT.pc = "backoff"
    /\ capT' = [capT EXCEPT !.pc = "top"]
    /\ UNCHANGED <<latest_frame, latest_detections, stop_event, gui, mirror,
                   key, last_action, detT, mainT, logs>>
    /\ UNCHANGED <<trackerVars, pure>>

\* latest.update(frame): with self._lock: self._frame = frame
CapStore ==
    /\ capT.pc = "update"
    /\ LockFree(latest_frame)
    /\ latest_frame' = [latest_frame EXCEPT !.frame = capT.frame,
                                            !.lock = "capture"]
    /\ capT' = [capT EXCEPT !.pc = "bump"]
    /\ UNCHANGED <<latest_detections, stop_event, gui, mirror,
                   key, last_action, detT, mainT, logs>>
    /\ UNCHANGED <<trackerVars, pure>>

\* self._version += 1, and the lock is released
CapBump ==
    /\ capT.pc = "bump"
    /\ latest_frame' = [latest_frame EXCEPT
                          !.version = NextVersion(latest_frame.version),
                          !.lock = ReleasedLock]
    /\ logs' = [logs EXCEPT !.frames =
                  Append(logs.frames,
                         [version |-> NextVersion(latest_frame.version),
                          value |-> capT.frame])]
    /\ capT' = [capT EXCEPT !.pc = "top",
                            !.late = capT.late + (IF stop_event THEN 1 ELSE 0)]
    /\ UNCHANGED <<latest_detections, stop_event, gui, mirror,
                   key, last_action, detT, mainT>>
    /\ UNCHANGED <<trackerVars, pure>>

\* ----------------------------------------------------- detection thread
\* while not stop.is_set():
DetCheckStop ==
    /\ detT.pc = "top"
    /\ detT' = [detT EXCEPT !.pc = AfterStopCheck(stop_event, "snap")]
    /\ UNCHANGED <<latest_frame, latest_detections, stop_event, gui, mirror,
                   key, last_action, capT, mainT, logs>>
    /\ UNCHANGED <<trackerVars, pure>>

\* variant: the version comparison is missing
AlreadySeenNever(d, version) == FALSE

\* version == last_seen
AlreadySeen(d, version) == version = d.last_seen

\* frame, version = latest.snapshot(): with self._lock: return both fields;
\* if frame is None or version == last_seen: sleep, continue
\* last_seen = version
DetSnapshot ==
    /\ detT.pc = "snap"
    /\ LockFree(latest_frame)
    /\ detT' = IF latest_frame.frame = NoFrame
                  \/ AlreadySeen(detT, latest_frame.version)
               THEN [detT EXCEPT !.pc = "top",
                                 !.frame = latest_frame.frame,
                                 !.version = latest_frame.version,
                                 !.startN = Len(logs.frames)]
               ELSE [detT EXCEPT !.pc = "detect",
                                 !.frame = latest_frame.frame,
                                 !.version = latest_frame.version,
                                 !.startN = Len(logs.frames),
                                 !.last_seen = latest_frame.version]
    /\ latest_frame' = [latest_frame EXCEPT
                          !.frame = AfterSnapshot(latest_frame)]
    /\ UNCHANGED <<latest_detections, stop_event, gui, mirror,
                   key, last_action, capT, mainT, logs>>
    /\ UNCHANGED <<trackerVars, pure>>

\* detections = detector.detect(frame): a list comes back
DetDetect ==
    /\ detT.pc = "detect"
    /\ \E items \in DetChoices :
          detT' = [detT EXCEPT !.pc = "publish",
                               !.detections = Detections(items, detT.frame.id)]
    /\ UNCHANGED <<latest_frame, latest_detections, stop_event, gui, mirror,
                   key, last_action, capT, mainT, logs>>
    /\ UNCHANGED <<trackerVars, pure>>

\* detector.detect(frame) raises: run() has no handler, the thread ends
DetRaise ==
    /\ detT.pc = "detect"
    /\ detT' = [detT EXCEPT !.pc = "crashed"]
    /\ UNCHANGED <<latest_frame, latest_detections, stop_event, gui, mirror,
                   key, last_action, capT, mainT, logs>>
    /\ UNCHANGED <<trackerVars, pure>>

\* out.update(detections, version): with self._lock: self._detections = ...
DetStore ==
    /\ detT.pc = "publish"
    /\ LockFree(latest_detections)
    /\ latest_detections' = [latest_detections EXCEPT
                               !.detections = detT.detections,
                               !.lock = "detect"]
    /\ detT' = [detT EXCEPT !.pc = "tag"]
    /\ UNCHANGED <<latest_frame, stop_event, gui, mirror,
                   key, last_action, capT, mainT, logs>>
    /\ UNCHANGED <<trackerVars, pure>>

\* self._version = version, and the lock is released
DetTag ==
    /\ detT.pc = "tag"
    /\ latest_detections' = [latest_detections EXCEPT
                               !.version = TagVersion(detT),
                               !.lock = ReleasedLock]
    /\ logs' = [logs EXCEPT !.dets =
                  Append(logs.dets, [version |-> TagVersion(detT),
                                     value |-> detT.detections])]
    /\ detT' = [detT EXCEPT !.pc = "top",
                            !.late = detT.late + (IF stop_event THEN 1 ELSE 0)]
    /\ UNCHANGED <<latest_frame, stop_event, gui, mirror,
                   key, last_action, capT, mainT>>
    /\ UNCHANGED <<trackerVars, pure>>

\* ------------------------------------------------------------ main loop
\* frame, frame_version = latest_frame.snapshot(): with self._lock
MainSnapshot ==
    /\ mainT.pc = "top"
    /\ LockFree(latest_frame)
    /\ mainT' = [mainT EXCEPT
                   !.pc = "check",
                   !.frame = latest_frame.frame,
                   !.frame_version = latest_frame.version,
                   !.startN = Len(logs.frames),
                   !.reads = Min(2, mainT.reads + 1),
                   !.reread = mainT.reread /\
                       ~(mainT.reads > 0 /\ Len(logs.frames) = mainT.startN
                         /\ (latest_frame.frame # mainT.frame
                             \/ latest_frame.version # mainT.frame_version))]
    /\ latest_frame' = [latest_frame EXCEPT
                          !.frame = AfterSnapshot(latest_frame)]
    /\ UNCHANGED <<latest_detections, stop_event, gui, mirror,
                   key, last_action, capT, detT, logs>>
    /\ UNCHANGED <<trackerVars, pure>>

\* if frame is None: sleep, continue
\* if frame_version == last_frame_version: gui.process_events() or sleep
\* last_frame_version = frame_version
MainCheck ==
    /\ mainT.pc = "check"
    /\ IF mainT.frame = NoFrame
       THEN /\ mainT' = [mainT EXCEPT !.pc = "top", !.skipped = TRUE]
            /\ key' = key
       ELSE IF SameFrame(mainT)
       THEN IF gui
            THEN /\ mainT' = [mainT EXCEPT
                                !.pc = IF key = "q" THEN "finally" ELSE "top"]
                 /\ key' = "none"
            ELSE /\ mainT' = [mainT EXCEPT !.pc = "top", !.skipped = TRUE]
                 /\ key' = key
       ELSE /\ mainT' = [mainT EXCEPT
                           !.pc = "process",
                           !.last_frame_version = mainT.frame_version]
            /\ key' = key
    /\ UNCHANGED <<latest_frame, latest_detections, stop_event, gui, mirror,
                   last_action, capT, detT, logs>>
    /\ UNCHANGED <<trackerVars, pure>>

\* observer: the text whose event is outstanding on a side after a call
TrigNext(old, state, text, t, ev) ==
    IF ev # NoEvent THEN ev.text
    ELSE IF text # NoText /\ text # old THEN NoText
    ELSE IF CallKind(state, text, t) = "forget" THEN NoText
    ELSE old

\* detections, det_version = latest_detections.snapshot(): with self._lock;
\* new_detections = det_version != last_detection_version;
\* split_x, the two lists, the two picks, now = time.monotonic(),
\* tracker.update("left", ...), tracker.update("right", ...)
MainProcess ==
    /\ mainT.pc = "process"
    /\ LockFree(latest_detections)
    /\ \E t \in now..(now + 1) :
         LET detections == latest_detections.detections
             split_x == SplitX(FrameWidth)
             lt == PickText(LeftOf(detections.items, split_x))
             rt == PickText(RightOf(detections.items, split_x))
             rl == update(left, "left", lt, t)
             rr == update(right, "right", rt, t)
             evs == (IF rl.event = NoEvent THEN <<>> ELSE <<rl.event>>)
                    \o (IF rr.event = NoEvent THEN <<>> ELSE <<rr.event>>)
         IN /\ t <= MaxTime
            /\ now' = t
            /\ left' = rl.state
            /\ right' = rr.state
            /\ mainT' = [mainT EXCEPT
                           !.detections = detections,
                           !.det_version = latest_detections.version,
                           !.dreads = Min(2, mainT.dreads + 1),
                           !.new_detections = latest_detections.version
                                              # mainT.last_detection_version,
                           !.last_detection_version = latest_detections.version,
                           !.left_event = rl.event,
                           !.right_event = rr.event,
                           !.pc = IF rl.event # NoEvent THEN "load_left"
                                  ELSE IF rr.event # NoEvent THEN "load_right"
                                  ELSE "render"]
            /\ logs' = [logs EXCEPT
                          !.processed = Append(logs.processed,
                                               mainT.frame_version),
                          !.events = logs.events \o evs,
                          !.trig = [sd \in Sides |->
                              IF sd = "left"
                              THEN TrigNext(logs.trig[sd], left, lt, t, rl.event)
                              ELSE TrigNext(logs.trig[sd], right, rt, t, rr.event)],
                          !.dbl = \/ logs.dbl
                                  \/ (rl.event # NoEvent
                                      /\ logs.trig["left"] = rl.event.text)
                                  \/ (rr.event # NoEvent
                                      /\ logs.trig["right"] = rr.event.text)]
    /\ UNCHANGED <<stable_seconds, dropout_seconds, forget_seconds, side,
                   detected_text, event, kind, hist, feed, pure>>
    /\ UNCHANGED <<latest_frame, latest_detections, stop_event, gui, mirror,
                   key, last_action, capT, detT>>

\* variant: the right event is dropped when the left side fired too
AfterLoadLeftSkipsRight(right_event) == "render"

\* if right_event: ... comes after the left load, whatever it returned
AfterLoadLeft(right_event) ==
    IF right_event # NoEvent THEN "load_right" ELSE "render"

\* if left_event: if mixxx.load_track(left_event.text, "left"): last_action
MainLoadLeft ==
    /\ mainT.pc = "load_left"
    /\ \E ok \in BOOLEAN :
         /\ last_action' = IF ok THEN mainT.left_event ELSE last_action
         /\ left' = TrackerAfterLoad(left, ok)
         /\ logs' = [logs EXCEPT !.loads =
                       Append(logs.loads, [side |-> "left",
                                           text |-> mainT.left_event.text,
                                           ok |-> ok])]
    /\ mainT' = [mainT EXCEPT !.pc = AfterLoadLeft(mainT.right_event)]
    /\ UNCHANGED <<right, stable_seconds, dropout_seconds, forget_seconds,
                   side, now, detected_text, event, kind, hist, feed, pure>>
    /\ UNCHANGED <<latest_frame, latest_detections, stop_event, gui, mirror,
                   key, capT, detT>>

\* if right_event: if mixxx.load_track(right_event.text, "right"): ...
MainLoadRight ==
    /\ mainT.pc = "load_right"
    /\ \E ok \in BOOLEAN :
         /\ last_action' = IF ok THEN mainT.right_event ELSE last_action
         /\ right' = TrackerAfterLoad(right, ok)
         /\ logs' = [logs EXCEPT !.loads =
                       Append(logs.loads, [side |-> "right",
                                           text |-> mainT.right_event.text,
                                           ok |-> ok])]
    /\ mainT' = [mainT EXCEPT !.pc = "render"]
    /\ UNCHANGED <<left, stable_seconds, dropout_seconds, forget_seconds,
                   side, now, detected_text, event, kind, hist, feed, pure>>
    /\ UNCHANGED <<latest_frame, latest_detections, stop_event, gui, mirror,
                   key, capT, detT>>

\* if gui: keep_running = gui.render(...) (it ends in _handle_key); else sleep
MainRender ==
    /\ mainT.pc = "render"
    /\ IF gui
       THEN /\ mainT' = [mainT EXCEPT
                           !.pc = IF key = "q" THEN "finally" ELSE "top"]
            /\ key' = "none"
       ELSE /\ mainT' = [mainT EXCEPT !.pc = "top"]
            /\ key' = key
    /\ UNCHANGED <<latest_frame, latest_detections, stop_event, gui, mirror,
                   last_action, capT, detT, logs>>
    /\ UNCHANGED <<trackerVars, pure>>

\* finally: stop_event.set()
MainFinally ==
    /\ mainT.pc = "finally"
    /\ stop_event' = TRUE
    /\ mainT' = [mainT EXCEPT !.pc = "join_cap"]
    /\ UNCHANGED <<latest_frame, latest_detections, gui, mirror,
                   key, last_action, capT, detT, logs>>
    /\ UNCHANGED <<trackerVars, pure>>

\* run() of the thread has returned or was left by an exception
Ended(thread) == thread.pc \in {"done", "crashed"}

\* variant: join without a timeout
JoinReturnsWhenEnded(thread, timed_out) == Ended(thread)

\* thread.join(timeout=1.0) returns when the thread has ended or when the
\* second is over
JoinReturns(thread, timed_out) == Ended(thread) \/ timed_out

\* cap_thread.join(timeout=1.0)
MainJoinCapture ==
    /\ mainT.pc = "join_cap"
    /\ \E timed_out \in BOOLEAN : JoinReturns(capT, timed_out)
    /\ mainT' = [mainT EXCEPT !.pc = "join_det"]
    /\ UNCHANGED <<latest_frame, latest_detections, stop_event, gui, mirror,
                   key, last_action, capT, detT, logs>>
    /\ UNCHANGED <<trackerVars, pure>>

\* det_thread.join(timeout=1.0)
MainJoinDetection ==
    /\ mainT.pc = "join_det"
    /\ \E timed_out \in BOOLEAN : JoinReturns(detT, timed_out)
    /\ mainT' = [mainT EXCEPT !.pc = "release"]
    /\ UNCHANGED <<latest_frame, latest_detections, stop_event, gui, mirror,
                   key, last_action, capT, detT, logs>>
    /\ UNCHANGED <<trackerVars, pure>>

\* cap.release(); if gui: cv2.destroyAllWindows(); return 0
MainRelease ==
    /\ mainT.pc = "release"
    /\ capT' = [capT EXCEPT !.released = TRUE]
    /\ mainT' = [mainT EXCEPT !.pc = "done"]
    /\ UNCHANGED <<latest_frame, latest_detections, stop_event, gui, mirror,
                   key, last_action, detT, logs>>
    /\ UNCHANGED <<trackerVars, pure>>

\* the user presses q in the debug window
PressQuit ==
    /\ gui
    /\ key = "none"
    /\ mainT.pc \notin {"finally", "join_cap", "join_det", "release", "done"}
    /\ key' = "q"
    /\ UNCHANGED <<latest_frame, latest_detections, stop_event, gui, mirror,
                   last_action, capT, detT, mainT, logs>>
    /\ UNCHANGED <<trackerVars, pure>>

\* tracker_cfg.get("stable_seconds", 1.0), ("dropout_seconds", 1.0),
\* ("forget_seconds", 5.0): one tick is one second
DefaultStable == 1
DefaultDropout == 1
DefaultForget == 5

\* main up to the start of the threads: the tracker and the pipeline objects
InitPipe ==
    /\ stable_seconds = DefaultStable
    /\ dropout_seconds = DefaultDropout
    /\ forget_seconds = DefaultForget
    /\ left = InitSide
    /\ right = InitSide
    /\ side = "left"
    /\ now = 0
    /\ detected_text = NoText
    /\ event = NoEvent
    /\ kind = "init"
    /\ hist = NoHist
    /\ feed = "any"
    /\ \E g \in BOOLEAN : PipeStart(g, TRUE)

\* The capture thread, the detection thread and main's loop up to
\* stop_event.set(); the joins and the release that follow are in NextStages.
NextPipe ==
    \/ CapCheckStop \/ CapRead \/ CapBackoff \/ CapStore \/ CapBump
    \/ DetCheckStop \/ DetSnapshot
    \/ DetDetect \/ DetRaise \/ DetStore \/ DetTag
    \/ MainSnapshot \/ MainCheck \/ MainProcess
    \/ MainLoadLeft \/ MainLoadRight
    \/ MainRender \/ MainFinally \/ PressQuit

SpecPipe == InitPipe /\ [][NextPipe]_vars

\* ---------------------------------------------------------------- C12
\* a load_track call of this step
LoadStep == mainT.pc \in {"load_left", "load_right"} /\ mainT' # mainT

C13_DetectorContained == detT.pc # "crashed"

\* ---------------------------------------------------------------- C14
\* the step that completes _LatestFrame.update
FramePublished == capT.pc = "bump" /\ capT'.pc = "top"

\* the step that completes _LatestDetections.update
DetectionsPublished == detT.pc = "tag" /\ detT'.pc = "top"

\* a step in which a thread takes a snapshot of the frame slot
FrameSnapshotStep ==
    \/ detT.pc = "snap" /\ detT' # detT
    \/ mainT.pc = "top" /\ mainT' # mainT

\* the step in which main takes a snapshot of the detections slot
DetectionsSnapshotStep == mainT.pc = "process" /\ mainT' # mainT

\* C14: a publish to the frame slot stores the frame and adds exactly 1 to
\* the version; a publish to the detections slot stores the list and sets the
\* version to the frame version passed by the detection thread, which is
\* larger than the slot's version before; no snapshot of a slot is taken
\* between the two assignments of a publish to it.
C14_Publish ==
    [][/\ FramePublished =>
            /\ latest_frame'.frame = capT.frame
            /\ latest_frame'.version = latest_frame.version + 1
       /\ DetectionsPublished =>
            /\ latest_detections'.detections = detT.detections
            /\ latest_detections'.version = detT.version
            /\ latest_detections'.version > latest_detections.version
       /\ FrameSnapshotStep => capT.pc # "bump"
       /\ DetectionsSnapshotStep => detT.pc # "tag"]_vars

\* the first publish to the detections slot has taken its version from 0 to 2
C14_Witness ==
    /\ Len(logs.dets) = 1
    /\ LockFree(latest_detections)
    /\ latest_detections.version = 2
    /\ logs.dets[1].version = 2

\* C14 as stated: every publish, to the frame slot and to the detections
\* slot, adds exactly 1 to the slot's version.
C14_Original ==
    [][/\ FramePublished =>
            latest_frame'.version = latest_frame.version + 1
       /\ DetectionsPublished =>
            latest_detections'.version = latest_detections.version + 1]_vars

\* ---------------------------------------------------------------- C15
\* a snapshot of the frame slot that returned (frame, version) and was
\* taken when n publishes to the slot had completed
FreshRead(frame, version, n) ==
    /\ version \in 0..Len(logs.frames)
    /\ version = 0 \/ \E i \in 1..Len(logs.frames) :
                         logs.frames[i].version = version
    /\ version = n
    /\ n = 0 => frame = NoFrame
    /\ n > 0 => /\ logs.frames[n].version = n
                /\ frame = logs.frames[n].value

\* C15: with the capture thread publishing to the frame slot and the
\* detection thread and main reading it, every snapshot returns a version
\* between 0 and the number of publishes so far, one that was published, and
\* a snapshot taken when n publishes had completed returns version n with
\* the frame of the n-th publish.
C15_Freshness ==
    /\ FreshRead(detT.frame, detT.version, detT.startN)
    /\ FreshRead(mainT.frame, mainT.frame_version, mainT.startN)

\* both frames are published; main's snapshot came after the second publish
\* and returned it, the detection thread's last snapshot returned the first
C15_Witness ==
    /\ Len(logs.frames) = 2
    /\ mainT.frame_version = 2
    /\ mainT.frame = logs.frames[2].value
    /\ detT.version = 1

\* ---------------------------------------------------------------- C16
\* (value, version) is the pair stored by the publish of log that set the
\* version to this one
PairedIn(log, value, version) ==
    /\ \E i \in 1..Len(log) : log[i].version = version
    /\ \A i \in 1..Len(log) : log[i].version = version => log[i].value = value

\* C16: a snapshot of the frame slot or of the detections slot that returned
\* a version V > 0 returned the value stored by the publish that set the
\* slot's version to V.
C16_AtomicPairing ==
    /\ detT.version > 0 => PairedIn(logs.frames, detT.frame, detT.version)
    /\ mainT.frame_version > 0 =>
         PairedIn(logs.frames, mainT.frame, mainT.frame_version)
    /\ mainT.det_version > 0 =>
         PairedIn(logs.dets, mainT.detections, mainT.det_version)

\* two different detection results were published, main has read frame 2
\* and the second result while the capture and detection threads were running
C16_Witness ==
    /\ Len(logs.dets) = 2
    /\ logs.dets[1].value.items # logs.dets[2].value.items
    /\ mainT.det_version = 2
    /\ mainT.detections = logs.dets[2].value
    /\ mainT.frame_version = 2

\* ---------------------------------------------------------------- C17
\* C17: a snapshot of the frame slot taken before any publish to it returns
\* (None, 0) and one of the detections slot returns ([], 0); a snapshot
\* leaves the slot's value and version as they were, and two snapshots of
\* the frame slot by main with no publish in between return the same pair.
C17_Read ==
    [][/\ (detT.pc = "snap" /\ detT' # detT /\ Len(logs.frames) = 0) =>
            (detT'.frame = NoFrame /\ detT'.version = 0)
       /\ (mainT.pc = "top" /\ mainT' # mainT /\ Len(logs.frames) = 0) =>
            (mainT'.frame = NoFrame /\ mainT'.frame_version = 0)
       /\ (DetectionsSnapshotStep /\ Len(logs.dets) = 0) =>
            (mainT'.detections = EmptyDetections /\ mainT'.det_version = 0)
       /\ FrameSnapshotStep => latest_frame' = latest_frame
       /\ DetectionsSnapshotStep => latest_detections' = latest_detections
       /\ mainT'.reread]_vars

\* main took the detections before the detection thread had published any
\* and got ([], 0); it then read the frame slot again and got version 1 a
\* second time
C17_Witness ==
    /\ mainT.pc = "check"
    /\ mainT.frame_version = 1
    /\ SameFrame(mainT)
    /\ mainT.dreads = 1
    /\ mainT.det_version = 0
    /\ mainT.detections = EmptyDetections
    /\ Len(logs.dets) = 0

\* C17 as stated: a snapshot of either slot before any publish to it
\* returns (None, 0).
C17_Original ==
    [][/\ (mainT.pc = "top" /\ mainT' # mainT /\ Len(logs.frames) = 0) =>
            (mainT'.frame = NoFrame /\ mainT'.frame_version = 0)
       /\ (DetectionsSnapshotStep /\ Len(logs.dets) = 0) =>
            (mainT'.detections = NoneDetections /\ mainT'.det_version = 0)]_vars

\* ---------------------------------------------------------------- C18
\* main holds the frame and the detections of one iteration
ComparesVersions == mainT.pc \in {"load_left", "load_right", "render"}

\* C18: every result published to the detections slot has as its version
\* the frame-slot version of the frame the detector ran on, and in an
\* iteration of main the detections version equals the frame version exactly
\* when the detections were computed from the frame main holds.
C18_TaggedWithSource ==
    /\ \A i \in 1..Len(logs.dets) :
         /\ logs.dets[i].version \in 1..Len(logs.frames)
         /\ logs.frames[logs.dets[i].version].version = logs.dets[i].version
         /\ logs.frames[logs.dets[i].version].value.id = logs.dets[i].value.src
    /\ ComparesVersions =>
         (mainT.det_version = mainT.frame_version
            <=> mainT.detections.src = mainT.frame.id)

\* the result for frame 1 was published when the frame slot was already at
\* version 2, and main, holding frame 2, sees the detections lag
C18_Witness ==
    /\ Len(logs.dets) = 1
    /\ logs.dets[1].version = 1
    /\ ComparesVersions
    /\ mainT.frame_version = 2
    /\ mainT.det_version = 1

\* ---------------------------------------------------------------- C19
\* C19: the frame versions for which main called tracker.update are
\* strictly increasing (so none is processed twice), each is the version of
\* a publish to the frame slot, and there is none before the first publish.
C19_NoReprocessing ==
    /\ \A i \in 1..Len(logs.processed) :
         /\ logs.processed[i] \in 1..Len(logs.frames)
         /\ i > 1 => logs.processed[i - 1] < logs.processed[i]
    /\ Len(logs.frames) = 0 => (left = InitSide /\ right = InitSide)

\* main has processed versions 1 and 2, has read version 2 again and is
\* about to skip it
C19_Witness ==
    /\ logs.processed = <<1, 2>>
    /\ mainT.pc = "check"
    /\ mainT.frame_version = 2
    /\ SameFrame(mainT)

\* ---------------------------------------------------------------- C20
\* main ends an iteration in which the snapshot brought no new frame version
\* (debug window open)
IdleIteration ==
    /\ gui
    /\ mainT.pc = "check"
    /\ mainT' # mainT
    /\ mainT.frame = NoFrame \/ SameFrame(mainT)

\* C20: every iteration of main without a new frame version, the ones
\* before the first publish included, polls the keys of the debug window:
\* a pending key is consumed, and a pending q ends the loop.
C20_PollsWithoutFrame ==
    [][IdleIteration =>
         /\ key' = "none"
         /\ key = "q" => mainT'.pc = "finally"]_vars

\* ---------------------------------------------------------------- C21
\* C21: load_track is called once for every event tracker.update returned,
\* in the iteration that returned it, with the event's side and text, and
\* is not called for a side without an event: the calls follow the events
\* one to one and none is outstanding when the iteration ends.
C21_EventDispatch ==
    /\ Len(logs.loads) <= Len(logs.events)
    /\ \A i \in 1..Len(logs.loads) :
         /\ logs.loads[i].side = logs.events[i].side
         /\ logs.loads[i].text = logs.events[i].text
    /\ mainT.pc \notin {"load_left", "load_right"} =>
         Len(logs.loads) = Len(logs.events)
    /\ mainT.pc = "load_left" =>
         /\ mainT.left_event # NoEvent
         /\ Len(logs.events) - Len(logs.loads)
              = Count(mainT.left_event) + Count(mainT.right_event)
    /\ mainT.pc = "load_right" =>
         /\ mainT.right_event # NoEvent
         /\ Len(logs.events) - Len(logs.loads) = 1

\* both sides fired in one iteration and both loads were made, left first
C21_Witness ==
    /\ mainT.pc = "render"
    /\ mainT.left_event = TriggerEvent("left", "A")
    /\ mainT.right_event = TriggerEvent("right", "B")
    /\ Len(logs.loads) = 2
    /\ logs.loads[1].side = "left" /\ logs.loads[1].text = "A"
    /\ logs.loads[2].side = "right" /\ logs.loads[2].text = "B"

\* ---------------------------------------------------------------- C22
\* cap.read() returned ok = False in this step
ReadFailed == capT.pc = "read" /\ capT'.pc \notin {"read", "update"}

\* C22: a failed cap.read() publishes nothing (frame slot and the record of
\* its publishes unchanged) and takes the capture thread through the sleep
\* back to the top of its loop, in the state it had before the read; the
\* thread leaves the loop only with the stop event set; a successful read
\* is stored in the frame slot.
C22_CaptureFailureTransient ==
    [][/\ ReadFailed =>
            /\ capT' = [capT EXCEPT !.pc = "backoff"]
            /\ latest_frame' = latest_frame
            /\ logs' = logs
       /\ (capT.pc = "backoff" /\ capT'.pc # "backoff") =>
            /\ capT' = [capT EXCEPT !.pc = "top"]
            /\ latest_frame' = latest_frame
            /\ logs' = logs
       /\ (capT.pc = "top" /\ capT'.pc # "top" /\ ~stop_event) =>
            capT'.pc = "read"
       /\ (capT.pc # "done" /\ capT'.pc = "done") =>
            (capT.pc = "top" /\ stop_event)
       /\ (capT.pc = "read" /\ capT'.pc = "update") =>
            capT'.frame # NoFrame
       /\ (capT.pc = "update" /\ capT'.pc # "update") =>
            latest_frame'.frame = capT.frame]_vars

\* a read has failed after frame 1 was published: the thread is in its
\* sleep, the slot still holds frame 1, and the camera has a frame to give
C22_Witness ==
    /\ capT.pc = "backoff"
    /\ capT.nread = 1
    /\ capT.nread < MaxReads
    /\ LockFree(latest_frame)
    /\ latest_frame.version = 1
    /\ latest_frame.frame = Frame(1, mirror)
    /\ ~stop_event

\* ------------------------------------------- start-up and shutdown of main
\* variant: a configuration that cannot be loaded is replaced by defaults
AfterLoadConfigFallsBack(ok) == "open"

\* config = load_config(args.config): the exception leaves main
AfterLoadConfig(ok) == IF ok THEN "open" ELSE "raised"

\* config = load_config(args.config)
MainLoadConfig ==
    /\ mainT.pc = "config"
    /\ \E ok \in BOOLEAN :
         mainT' = [mainT EXCEPT !.pc = AfterLoadConfig(ok),
                                !.config = IF ok THEN "loaded" ELSE "failed"]
    /\ UNCHANGED <<latest_frame, latest_detections, stop_event, gui, mirror,
                   key, last_action, capT, detT, logs>>
    /\ UNCHANGED <<trackerVars, pure>>

\* cap = open_camera(...): RuntimeError when the camera does not open
MainOpenCamera ==
    /\ mainT.pc = "open"
    /\ \E ok \in BOOLEAN :
         mainT' = [mainT EXCEPT !.pc = IF ok THEN "start" ELSE "raised"]
    /\ UNCHANGED <<latest_frame, latest_detections, stop_event, gui, mirror,
                   key, last_action, capT, detT, logs>>
    /\ UNCHANGED <<trackerVars, pure>>

\* the tracker and the mailboxes are made, the two threads are started
MainStartThreads ==
    /\ mainT.pc = "start"
    /\ latest_frame' = InitLatestFrame
    /\ latest_detections' = InitLatestDetections
    /\ stop_event' = FALSE
    /\ capT' = InitCapture
    /\ detT' = InitDetection
    /\ mainT' = [mainT EXCEPT !.pc = "top"]
    /\ UNCHANGED <<gui, mirror, key, last_action, logs>>
    /\ UNCHANGED <<trackerVars, pure>>

\* the while True loop is left, by a break or by an exception inside try
MainLeaveLoop ==
    /\ mainT.pc = "top"
    /\ mainT' = [mainT EXCEPT !.pc = "finally"]
    /\ UNCHANGED <<latest_frame, latest_detections, stop_event, gui, mirror,
                   key, last_action, capT, detT, logs>>
    /\ UNCHANGED <<trackerVars, pure>>

\* main is called: nothing is loaded, no thread exists
InitStages ==
    /\ stable_seconds = DefaultStable
    /\ dropout_seconds = DefaultDropout
    /\ forget_seconds = DefaultForget
    /\ left = InitSide
    /\ right = InitSide
    /\ side = "left"
    /\ now = 0
    /\ detected_text = NoText
    /\ event = NoEvent
    /\ kind = "init"
    /\ hist = NoHist
    /\ feed = "any"
    /\ latest_frame = InitLatestFrame
    /\ latest_detections = InitLatestDetections
    /\ stop_event = FALSE
    /\ gui \in BOOLEAN
    /\ mirror = TRUE
    /\ key = "none"
    /\ last_action = NoEvent
    /\ capT = [InitCapture EXCEPT !.pc = "unstarted"]
    /\ detT = [InitDetection EXCEPT !.pc = "unstarted"]
    /\ mainT = [InitMain EXCEPT !.pc = "config", !.config = "unread"]
    /\ logs = NoLogs
    /\ pure = NoCall

\* the steps of main's finally block
MainShutdown ==
    MainFinally \/ MainJoinCapture \/ MainJoinDetection \/ MainRelease

\* main from its call to its return, with the loop as the one step that
\* leaves it, and the two threads
NextStages ==
    \/ MainLoadConfig \/ MainOpenCamera \/ MainStartThreads \/ MainLeaveLoop
    \/ MainFinally \/ MainJoinCapture \/ MainJoinDetection \/ MainRelease
    \/ CapCheckStop \/ CapRead \/ CapBackoff \/ CapStore \/ CapBump
    \/ DetCheckStop \/ DetSnapshot
    \/ DetDetect \/ DetRaise \/ DetStore \/ DetTag

SpecStages == InitStages /\ [][NextStages]_vars

\* main's own thread keeps running: a step of the finally block that can be
\* taken is taken; nothing is assumed of the two background threads
SpecStagesFair == SpecStages /\ WF_vars(MainShutdown)

\* ---------------------------------------------------------------- C23
\* C23: once main's loop is left, main sets the stop event, passes both
\* joins, releases the camera and returns, whatever the two threads do or
\* fail to do (main's own steps are the only ones assumed to be taken).
C23_ShutdownCompletes ==
    (mainT.pc = "finally")
      ~> (mainT.pc = "done" /\ stop_event /\ capT.released)

\* main has returned with the camera released although neither thread has
\* left its loop: the capture thread is inside cap.read(), the detection
\* thread inside the detector
C23_Witness ==
    /\ mainT.pc = "done"
    /\ stop_event
    /\ capT.released
    /\ capT.pc = "read"
    /\ detT.pc = "detect"

\* ---------------------------------------------------------------- C24
\* a step of the capture thread, a step of the detection thread
CaptureStep == CapCheckStop \/ CapRead \/ CapBackoff \/ CapStore \/ CapBump

DetectionStep ==
    DetCheckStop \/ DetSnapshot \/ DetDetect \/ DetRaise \/ DetStore \/ DetTag

\* cap.read() and detector.detect() return and the threads are scheduled
SpecStagesLive ==
    SpecStagesFair /\ WF_vars(CaptureStep) /\ WF_vars(DetectionStep)

\* C24: with the stop event set, a thread at the top of its loop leaves the
\* loop; each thread completes at most one publish after the stop event was
\* set; and each thread ends.
C24_StopHonoured ==
    /\ [](capT.late <= 1 /\ detT.late <= 1)
    /\ [][/\ (stop_event /\ capT.pc = "top" /\ capT'.pc # "top") =>
               capT'.pc = "done"
          /\ (stop_event /\ detT.pc = "top" /\ detT'.pc # "top") =>
               detT'.pc = "done"]_vars
    /\ stop_event ~> (Ended(capT) /\ Ended(detT))

\* both threads were inside an iteration when the stop event was set,
\* each finished it with one more publish and then ended
C24_Witness ==
    /\ stop_event
    /\ capT.pc = "done"
    /\ detT.pc = "done"
    /\ capT.late = 1
    /\ detT.late = 1

\* ---------------------------------------------------------------- C25
\* C25: a mailbox lock is held only between the two assignments of an
\* update (snapshots take and release it within their step): not while the
\* capture thread is in cap.read() or its sleep, not while the detection
\* thread is in the detector or has ended, not while main is in load_track;
\* so the capture thread never finds the frame slot locked, and main finds
\* the detections slot locked only while the detection thread is between
\* the two assignments of its update.
C25_NoWaiting ==
    /\ latest_frame.lock # "free" <=> capT.pc = "bump"
    /\ latest_detections.lock # "free" <=> detT.pc = "tag"
    /\ capT.pc \in {"read", "backoff", "update"} => LockFree(latest_frame)
    /\ (detT.pc = "detect" \/ Ended(detT)) =>
         /\ LockFree(latest_detections)
         /\ capT.pc # "bump" => LockFree(latest_frame)
    /\ mainT.pc \in {"load_left", "load_right"} =>
         /\ capT.pc # "bump" => LockFree(latest_frame)
         /\ detT.pc # "tag" => LockFree(latest_detections)

\* while the detection thread was in the detector with frame 1, the capture
\* thread published frame 2 and main went through an iteration with it
C25_Witness ==
    /\ detT.pc = "detect"
    /\ detT.version = 1
    /\ Len(logs.frames) = 2
    /\ Len(logs.dets) = 0
    /\ mainT.pc = "render"
    /\ mainT.frame_version = 2
    /\ logs.processed = <<2>>

\* ------------------------------------------- the pure functions of main
Max(a, b) == IF a > b THEN a ELSE b

\* the pipeline variables other than the record of the pure calls
stageVars == <<latest_frame, latest_detections, stop_event, gui, mirror, key,
               last_action, capT, detT, mainT, logs>>

\* the lists of at most MaxItems elements of a set
ListsOf(set) == UNION {[1..n -> set] : n \in 0..MaxItems}

\* the QRCodeDetection values tried for the split: every center x of the
\* frame, one area
SplitObs == {Observation(text, cx, 1) : text \in Texts, cx \in 0..FrameWidth}

\* the QRCodeDetection values tried for the pick: every area, one center
PickObs == {Observation(text, 1, area) : text \in Texts, area \in 1..MaxArea}

\* the arguments of a call that is about to be made
Args(op, items, split_x, roi) ==
    [NoCall EXCEPT !.op = op, !.items = items, !.split_x = split_x,
                   !.roi = roi]

PartitionArgs ==
    {Args("partition_args", items, split_x, <<>>) :
       items \in ListsOf(SplitObs), split_x \in 0..(FrameWidth + 1)}

PickArgs == {Args("pick_args", items, 0, <<>>) : items \in ListsOf(PickObs)}

\* variant: the upper limit is the size, not the last index
ClampToSize(v, size) == Max(0, Min(v, size))

\* max(0, min(v, size - 1))
Clamp(v, size) == Max(0, Min(v, size - 1))

\* the image the detection thread hands to the detector for roi_rect and a
\* frame of w by h: <<>> stands for None; the crop frame[y1:y2, x1:x2] of
\* the clamped rectangle, or the frame itself
DetectRegion(roi, w, h) ==
    IF roi = <<>>
    THEN FullFrame(w, h)
    ELSE LET x1 == Clamp(roi[1], w)
             x2 == Clamp(roi[3], w)
             y1 == Clamp(roi[2], h)
             y2 == Clamp(roi[4], h)
         IN  IF x2 > x1 /\ y2 > y1
             THEN [crop |-> TRUE, x1 |-> x1, y1 |-> y1, x2 |-> x2, y2 |-> y2]
             ELSE FullFrame(w, h)

\* the values of one x and of one y coordinate of a region of interest:
\* inside the frame, on its edges and one beyond them
RoiXs == (0 - 1)..(FrameWidth + 1)
RoiYs == (0 - 1)..(FrameHeight + 1)

\* no region, or any rectangle (x1, y1, x2, y2), sorted or not
RegionArgs ==
    {Args("region_args", <<>>, 0, roi) :
       roi \in {<<>>} \cup (RoiXs \X RoiYs \X RoiXs \X RoiYs)}

\* the choice of the detector's input in the detection thread, for a frame
\* of FrameWidth by FrameHeight
RegionCall ==
    /\ pure.op = "region_args"
    /\ pure' = [pure EXCEPT !.op = "region",
                            !.region = DetectRegion(pure.roi, FrameWidth,
                                                    FrameHeight)]
    /\ UNCHANGED <<trackerVars, stageVars>>

\* a QRCodeDetection as the detector builds it from a square of side 2 with
\* its top left corner at (x, y): the four corners, their mean, the area
Quad(text, x, y) ==
    [text |-> text,
     points |-> <<<<x, y>>, <<x + 2, y>>, <<x + 2, y + 2>>, <<x, y + 2>>>>,
     center |-> <<x + 1, y + 1>>,
     area |-> 4]

\* the detections the detector may return, in the coordinates of the image
\* it was given
CropObs == {Quad("A", x, y) : x \in {0, 1}, y \in {0, 1}}

\* no region, or a rectangle with any top left corner and a bottom right
\* corner at the origin or beyond the frame
TranslateRois ==
    {<<>>} \cup {<<x1, y1, x2, y2>> : x1 \in RoiXs, y1 \in RoiYs,
                                      x2 \in {0, FrameWidth + 1},
                                      y2 \in {0, FrameHeight + 1}}

\* one pass of the detection thread from roi.snapshot() on, about to start
TranslateArgs ==
    {Args("translate_args", items, 0, roi) :
       items \in ListsOf(CropObs), roi \in TranslateRois}

\* variant: det.center is left as the detector returned it
TranslateOnlyPoints(det, x1, y1) ==
    [det EXCEPT !.points = [k \in DOMAIN det.points |->
                              <<det.points[k][1] + x1, det.points[k][2] + y1>>]]

\* det.points = [(x + x1, y + y1) for x, y in det.points]
\* det.center = (det.center[0] + x1, det.center[1] + y1)
Translate(det, x1, y1) ==
    [det EXCEPT !.points = [k \in DOMAIN det.points |->
                              <<det.points[k][1] + x1, det.points[k][2] + y1>>],
                !.center = <<det.center[1] + x1, det.center[2] + y1>>]

\* detections = detector.detect(crop) or detector.detect(frame): the list
\* comes back in the coordinates of the image passed; only the crop branch
\* has the translation loop
DetectCall ==
    /\ pure.op = "translate_args"
    /\ LET region == DetectRegion(pure.roi, FrameWidth, FrameHeight)
       IN pure' = [pure EXCEPT
                     !.op = IF region.crop THEN "translating"
                            ELSE "translated",
                     !.region = region,
                     !.raw = pure.items,
                     !.done = 0]
    /\ UNCHANGED <<trackerVars, stageVars>>

\* for det in detections: one pass of the loop body, or the end of the loop
TranslateStep ==
    /\ pure.op = "translating"
    /\ pure' = IF pure.done < Len(pure.items)
               THEN [pure EXCEPT
                       !.items[pure.done + 1] =
                           Translate(pure.items[pure.done + 1],
                                     pure.region.x1, pure.region.y1),
                       !.done = pure.done + 1]
               ELSE [pure EXCEPT !.op = "translated"]
    /\ UNCHANGED <<trackerVars, stageVars>>

\* out.update(detections, version), for the first frame version
PublishCall ==
    /\ pure.op = "translated"
    /\ pure' = [pure EXCEPT !.op = "published"]
    /\ latest_detections' =
         [latest_detections EXCEPT !.detections = Detections(pure.items, 1),
                                   !.version = 1]
    /\ UNCHANGED trackerVars
    /\ UNCHANGED <<latest_frame, stop_event, gui, mirror, key, last_action,
                   capT, detT, mainT, logs>>

\* left_detections, right_detections of main for a list and a split_x
PartitionCall ==
    /\ pure.op = "partition_args"
    /\ pure' = [pure EXCEPT !.op = "partition",
                            !.left = LeftOf(pure.items, pure.split_x),
                            !.right = RightOf(pure.items, pure.split_x)]
    /\ UNCHANGED <<trackerVars, stageVars>>

\* _pick_detection(detections)
PickCall ==
    /\ pure.op = "pick_args"
    /\ pure' = [pure EXCEPT !.op = "pick",
                            !.pick = PickDetection(pure.items)]
    /\ UNCHANGED <<trackerVars, stageVars>>

\* one call is about to be made, with any of the arguments
InitPure ==
    /\ stable_seconds = DefaultStable
    /\ dropout_seconds = DefaultDropout
    /\ forget_seconds = DefaultForget
    /\ left = InitSide
    /\ right = InitSide
    /\ side = "left"
    /\ now = 0
    /\ detected_text = NoText
    /\ event = NoEvent
    /\ kind = "init"
    /\ hist = NoHist
    /\ feed = "any"
    /\ latest_frame = InitLatestFrame
    /\ latest_detections = InitLatestDetections
    /\ stop_event = FALSE
    /\ gui = TRUE
    /\ mirror = TRUE
    /\ key = "none"
    /\ last_action = NoEvent
    /\ capT = InitCapture
    /\ detT = InitDetection
    /\ mainT = InitMain
    /\ logs = NoLogs
    /\ pure \in PartitionArgs \cup PickArgs \cup RegionArgs \cup TranslateArgs

NextPure ==
    \/ PartitionCall
    \/ PickCall
    \/ RegionCall
    \/ DetectCall
    \/ TranslateStep
    \/ PublishCall

SpecPure == InitPure /\ [][NextPure]_vars

\* ---------------------------------------------------------------- C26
\* how often an observation occurs in a list
Occurrences(items, d) == Cardinality({i \in 1..Len(items) : items[i] = d})

\* C26: for every split_x, every observation of the list is in exactly one
\* of the two lists, as often as in the list: in the left list if and only
\* if its center x is strictly less than split_x, in the right list
\* otherwise; both lists keep the order of the input.
C26_Partition ==
    pure.op = "partition" =>
      /\ \A i \in 1..Len(pure.items) :
           LET d == pure.items[i]
           IN /\ d.center[1] < pure.split_x =>
                   /\ Occurrences(pure.left, d) = Occurrences(pure.items, d)
                   /\ Occurrences(pure.right, d) = 0
              /\ d.center[1] >= pure.split_x =>
                   /\ Occurrences(pure.right, d) = Occurrences(pure.items, d)
                   /\ Occurrences(pure.left, d) = 0
      /\ Len(pure.left) + Len(pure.right) = Len(pure.items)
      /\ \A i \in 1..Len(pure.left) : pure.left[i].center[1] < pure.split_x
      /\ \A i \in 1..Len(pure.right) : pure.right[i].center[1] >= pure.split_x

\* centers at split_x - 1 and at split_x: the first goes left, the second
\* right
C26_Witness ==
    /\ pure.op = "partition"
    /\ pure.split_x = 2
    /\ Len(pure.items) = 2
    /\ pure.items[1].center[1] = pure.split_x
    /\ pure.items[2].center[1] = pure.split_x - 1
    /\ pure.left = <<pure.items[2]>>
    /\ pure.right = <<pure.items[1]>>

\* ---------------------------------------------------------------- C27
\* C27: _pick_detection returns None for the empty list; otherwise it
\* returns an element of the list whose area is the largest of the list,
\* and of the elements with that area the first in list order.
C27_Selection ==
    pure.op = "pick" =>
      /\ pure.items = <<>> => pure.pick = NoDetection
      /\ pure.items # <<>> =>
           \E i \in 1..Len(pure.items) :
             /\ pure.pick = pure.items[i]
             /\ \A j \in 1..Len(pure.items) :
                  pure.items[j].area <= pure.items[i].area
             /\ \A j \in 1..(i - 1) :
                  pure.items[j].area < pure.items[i].area

\* two different observations share the largest area: the first is returned
C27_Witness ==
    /\ pure.op = "pick"
    /\ Len(pure.items) = 2
    /\ pure.items[1].area = MaxArea
    /\ pure.items[2].area = MaxArea
    /\ pure.items[1] # pure.items[2]
    /\ pure.pick = pure.items[1]

\* ---------------------------------------------------------------- C28
\* C28: when load_config fails, the exception leaves main before anything
\* else is done: main is over, neither thread was started, and nothing was
\* ever published to the frame slot or to the detections slot.
C28_ConfigErrorFatal ==
    mainT.config = "failed" =>
      /\ mainT.pc = "raised"
      /\ capT.pc = "unstarted"
      /\ detT.pc = "unstarted"
      /\ logs.frames = <<>>
      /\ logs.dets = <<>>
      /\ latest_frame.version = 0
      /\ latest_detections.version = 0
      /\ ~stop_event

\* load_config has raised
C28_Witness ==
    /\ mainT.config = "failed"
    /\ mainT.pc = "raised"
    /\ capT.pc = "unstarted"

\* ---------------------------------------------------------------- C29
\* the detection thread goes from its snapshot into the detector
DetectorRun == detT.pc = "snap" /\ detT'.pc = "detect"

\* C29: the detection thread runs the detector only on a published frame
\* whose version is larger than every version it ran on before; a snapshot
\* that returns no frame or the version of the last run sends it back to the
\* top of its loop with last_seen unchanged; the versions it publishes to
\* the detections slot are strictly increasing.
C29_OncePerVersion ==
    /\ [][/\ DetectorRun =>
               /\ Len(logs.frames) >= 1
               /\ detT'.frame # NoFrame
               /\ detT'.version \in 1..Len(logs.frames)
               /\ detT'.version > detT.last_seen
               /\ detT'.last_seen = detT'.version
          /\ (detT.pc = "snap" /\ detT'.pc # "snap"
              /\ (latest_frame.frame = NoFrame
                  \/ latest_frame.version = detT.last_seen)) =>
               /\ detT'.pc = "top"
               /\ detT'.last_seen = detT.last_seen]_vars
    /\ [](\A i \in 1..Len(logs.dets) :
            /\ logs.dets[i].version >= 1
            /\ i > 1 => logs.dets[i - 1].version < logs.dets[i].version)

\* the detector ran on version 1 and on version 2, once each, and the
\* thread is back at the top of its loop
C29_Witness ==
    /\ Len(logs.dets) = 2
    /\ logs.dets[1].version = 1
    /\ logs.dets[2].version = 2
    /\ detT.pc = "top"
    /\ detT.last_seen = 2
    /\ latest_frame.version = 2

\* ---------------------------------------------------------------- C30
\* c is v brought into 0..size-1: v itself when it is inside, else the
\* nearer end
ClampedInto(c, v, size) ==
    /\ c \in 0..(size - 1)
    /\ v \in 0..(size - 1) => c = v
    /\ v < 0 => c = 0
    /\ v > size - 1 => c = size - 1

\* C30: with a region of interest set, the detector gets the crop of the
\* rectangle whose coordinates are each clamped into the frame, unless that
\* rectangle is degenerate (x2 <= x1 or y2 <= y1), when it gets the full
\* frame; with no region set it gets the full frame.
C30_RoiClampAndFallback ==
    pure.op = "region" =>
      IF pure.roi = <<>>
      THEN pure.region = FullFrame(FrameWidth, FrameHeight)
      ELSE \E x1, x2 \in 0..(FrameWidth - 1), y1, y2 \in 0..(FrameHeight - 1) :
             /\ ClampedInto(x1, pure.roi[1], FrameWidth)
             /\ ClampedInto(y1, pure.roi[2], FrameHeight)
             /\ ClampedInto(x2, pure.roi[3], FrameWidth)
             /\ ClampedInto(y2, pure.roi[4], FrameHeight)
             /\ (x2 <= x1 \/ y2 <= y1) =>
                  pure.region = FullFrame(FrameWidth, FrameHeight)
             /\ (x2 > x1 /\ y2 > y1) =>
                  pure.region = [crop |-> TRUE, x1 |-> x1, y1 |-> y1,
                                 x2 |-> x2, y2 |-> y2]

\* a region reaching beyond every edge of the frame was clamped and cropped
C30_Witness ==
    /\ pure.op = "region"
    /\ pure.roi = <<0 - 1, 0 - 1, FrameWidth + 1, FrameHeight + 1>>
    /\ pure.region = [crop |-> TRUE, x1 |-> 0, y1 |-> 0,
                      x2 |-> FrameWidth - 1, y2 |-> FrameHeight - 1]

\* ---------------------------------------------------------------- C31
\* d is the detection r moved by (dx, dy): text and area kept, the center
\* and each point shifted
MovedBy(d, r, dx, dy) ==
    /\ d.text = r.text
    /\ d.area = r.area
    /\ d.center = <<r.center[1] + dx, r.center[2] + dy>>
    /\ DOMAIN d.points = DOMAIN r.points
    /\ \A k \in DOMAIN r.points :
         d.points[k] = <<r.points[k][1] + dx, r.points[k][2] + dy>>

\* C31: during a pass of the detection thread the detections slot keeps its
\* initial value until the pass publishes, and what it publishes is the
\* detector's list with every detection moved by the clamped origin
\* (x1, y1) of the crop when the detector ran on a crop, and the detector's
\* list itself when it ran on the full frame.
C31_FullFrameCoordinates ==
    pure.op \in {"translate_args", "translating", "translated", "published"} =>
      /\ pure.op # "published" => latest_detections = InitLatestDetections
      /\ pure.op = "published" =>
           LET out == latest_detections.detections.items
               dx == IF pure.region.crop THEN Clamp(pure.roi[1], FrameWidth)
                     ELSE 0
               dy == IF pure.region.crop THEN Clamp(pure.roi[2], FrameHeight)
                     ELSE 0
           IN /\ latest_detections.version = 1
              /\ Len(out) = Len(pure.raw)
              /\ \A i \in 1..Len(out) : MovedBy(out[i], pure.raw[i], dx, dy)
              /\ ~pure.region.crop => out = pure.raw

\* two detections found on a crop whose origin is off both axes were
\* published
C31_Witness ==
    /\ pure.op = "published"
    /\ pure.region.crop
    /\ pure.region.x1 >= 1
    /\ pure.region.y1 >= 1
    /\ Len(latest_detections.detections.items) >= 2
    /\ latest_detections.detections.items # pure.raw

\* ---------------------------------------------------------------- C32
\* main goes through lines 307-327 once: the snapshot of the detections
\* slot and the two tracker.update calls
FeedStep == mainT.pc = "process" /\ mainT'.pc # "process"

\* the publishes to the detections slot whose list holds the text
PublishesWith(text) ==
    {i \in 1..Len(logs.dets) :
       \E k \in 1..Len(logs.dets[i].value.items) :
         logs.dets[i].value.items[k].text = text}

\* C32: main feeds the tracker only from a detections snapshot whose
\* version differs from the version of the snapshot it fed before, so no
\* published result is fed in two iterations; and every TriggerEvent
\* returned carries a text that was published to the detections slot for
\* at least two frame versions.
C32_FedOnce ==
    /\ [][FeedStep =>
            latest_detections.version # mainT.last_detection_version]_vars
    /\ [](\A i \in 1..Len(logs.events) :
            Cardinality(PublishesWith(logs.events[i].text)) >= 2)

\* ---------------------------------------------------------------- C33
\* the capture thread calls cap.read()
ReadCall == capT.pc = "read" /\ capT'.pc # "read"

\* C33: the capture thread never calls cap.read() once main has called
\* cap.release().
C33_NoUseAfterRelease == [][ReadCall => ~capT.released]_vars

\* ------------------------------------------------- tracker, both sides
\* variant: both names are bound to one SideState
StoredShared(which, sd, state) == state

\* the SideState `which` after a call for side sd left `state` in the object
\* it selected: update writes through `state` only
Stored(which, sd, state) == IF sd = which THEN state ELSE SideOf(which)

\* One call tracker.update(sd, text, t) for either side, t not before the
\* previous call.
CallSide(sd, text, t) ==
    LET r == update(SideOf(sd), sd, text, t)
    IN /\ t <= MaxTime
       /\ side' = sd
       /\ left' = Stored("left", sd, r.state)
       /\ right' = Stored("right", sd, r.state)
       /\ now' = t
       /\ detected_text' = text
       /\ event' = r.event
       /\ kind' = CallKind(SideOf(sd), text, t)
       /\ UNCHANGED <<stable_seconds, dropout_seconds, forget_seconds, hist,
                      feed>>
       /\ UNCHANGED pipeVars

\* update with a decoded text, for either side
ObserveSide ==
    \E sd \in Sides, text \in Texts, dt \in 0..MaxStep :
      CallSide(sd, text, now + dt)

\* update with None, for either side
MissSide == \E sd \in Sides, dt \in 0..MaxStep : CallSide(sd, NoText, now + dt)

NextSides == ObserveSide \/ MissSide

\* StateTracker.__init__ with the default stable and dropout durations and
\* a configured forget duration short enough to pass within MaxTime
InitSides ==
    /\ PipeStart(TRUE, TRUE)
    /\ stable_seconds = DefaultStable
    /\ dropout_seconds = DefaultDropout
    /\ forget_seconds = MaxForget
    /\ left = InitSide
    /\ right = InitSide
    /\ side = "left"
    /\ now = 0
    /\ detected_text = NoText
    /\ event = NoEvent
    /\ kind = "init"
    /\ hist = NoHist
    /\ feed = "any"

\* a tracker whose two sides are fed in any order
SpecSides == InitSides /\ [][NextSides]_vars

\* ---------------------------------------------------------------- C34
\* C34: a call of update for one side leaves every field of the other
\* side's SideState as it was, and an event it returns carries the side and
\* the text of the call, which is the current_text of that side after it.
C34_SidesIndependent ==
    [][/\ side' = "left" => right' = right
       /\ side' = "right" => left' = left
       /\ event' # NoEvent =>
            /\ event'.side = side'
            /\ event'.text = detected_text'
            /\ event'.text # NoText
            /\ (IF side' = "left" THEN left' ELSE right').current_text
                 = event'.text]_vars

\* the right side returned an event while the left side holds another text,
\* triggered before
C34_Witness ==
    /\ event = TriggerEvent("right", "B")
    /\ right.current_text = "B"
    /\ right.triggered
    /\ left.current_text = "A"
    /\ left.triggered

\* ---------------------------------------------------------------- C35
\* the three structural conditions on one SideState
WellFormed(state) ==
    /\ state.current_text = NoText <=> state.last_seen = NoTime
    /\ state.triggered => state.current_text # NoText
    /\ (state.first_seen # NoTime /\ state.last_seen # NoTime) =>
         state.first_seen <= state.last_seen

\* C35: after any update calls with non-decreasing timestamps, on each
\* side current_text is None exactly when last_seen is None, triggered
\* implies a current_text, and first_seen <= last_seen when both are set.
C35_Structure == WellFormed(left) /\ WellFormed(right)

\* a triggered side whose text was first seen before it was last seen
C35_Witness ==
    /\ SideOf(side).triggered
    /\ SideOf(side).current_text # NoText
    /\ SideOf(side).first_seen # NoTime
    /\ SideOf(side).first_seen < SideOf(side).last_seen

\* ------------------------------------------- tracker, a steady feed
\* calls with any argument, while the caller has not settled on one
FreeCall == feed = "any" /\ (Observe \/ Miss)

\* from the next call on the caller passes one detected_text: a text, or
\* None
Settle ==
    /\ feed = "any"
    /\ feed' \in Texts \cup {NoText}
    /\ UNCHANGED <<left, right, stable_seconds, dropout_seconds,
                   forget_seconds, side, now, detected_text, event, kind,
                   hist>>
    /\ UNCHANGED pipeVars

\* tracker.update(side, feed, t) with a timestamp later than the last one
FeedCall ==
    /\ feed # "any"
    /\ \E dt \in 1..MaxStep : Call(feed, now + dt)

NextFeed == FreeCall \/ Settle \/ FeedCall

\* a new tracker, any durations, whose left side is the one fed
InitFeed == Init /\ side = "left"

\* a tracker called with any arguments and then with one argument only;
\* the steady calls go on as long as the clock has a later timestamp to
\* give
SpecFeed == InitFeed /\ [][NextFeed]_vars /\ WF_vars(FeedCall)

\* ---------------------------------------------------------------- C36
\* the clock leaves room for a steady feed of text to complete a stability
\* window: from first_seen if the side is already timing the text, else
\* from the latest time the next call can have
RoomToTrigger(text) ==
    LET state == SideOf(side)
    IN /\ now < MaxTime
       /\ IF state.current_text = text /\ state.first_seen # NoTime
          THEN state.first_seen + stable_seconds <= MaxTime
          ELSE /\ now + MaxStep < MaxTime
               /\ now + MaxStep + stable_seconds <= MaxTime

\* the clock leaves room for a call later than last_seen + forget_seconds
RoomToForget ==
    /\ now < MaxTime
    /\ SideOf(side).last_seen + forget_seconds < MaxTime

\* C36: once the side is fed one text T at every call, with timestamps
\* that keep increasing far enough, a TriggerEvent for T is returned unless
\* the side already holds T as triggered; once it is fed only None, with
\* timestamps that keep increasing far enough, the side returns to its
\* initial state.
C36_EventualTrigger ==
    /\ \A text \in Texts :
         (/\ feed = text
          /\ ~(SideOf(side).current_text = text /\ SideOf(side).triggered)
          /\ RoomToTrigger(text))
           ~> (event = TriggerEvent(side, text))
    /\ (feed = NoText /\ (SideOf(side).last_seen = NoTime \/ RoomToForget))
         ~> (SideOf(side) = InitSide)

\* a steady feed of A that began on a side holding B as triggered has
\* returned its event
C36_Witness ==
    /\ feed = "A"
    /\ event = TriggerEvent(side, "A")
    /\ hist.fgt = NoText
    /\ SideOf(side).triggered
    /\ SideOf(side).first_seen >= 1

\* ---------------------------------------------------------------- C37
\* the side remembers a text whose stability window is not running
DropoutOnly(state) ==
    state.current_text # NoText /\ state.first_seen = NoTime

\* C37: with forget_seconds <= dropout_seconds no side is ever left with a
\* current_text and no first_seen: a None call idle for more than
\* dropout_seconds is idle for more than forget_seconds and resets the side.
C37_DegenerateConfig ==
    forget_seconds <= dropout_seconds =>
      ~DropoutOnly(left) /\ ~DropoutOnly(right)

\* with the two durations equal and positive, a None call that came more
\* than that after the last observation reset the side
C37_Witness ==
    /\ forget_seconds = dropout_seconds
    /\ dropout_seconds >= 1
    /\ kind = "forget"
    /\ detected_text = NoText
    /\ SideOf(side) = InitSide

\* ---------------------------------------------------------------- C38
\* C38: the version of the detections slot never exceeds the version of
\* the frame slot, neither slot's version ever decreases, and neither do
\* the versions returned by the successive snapshots a thread takes of a
\* slot: the detection thread's and main's of the frame slot, main's of
\* the detections slot.
C38_VersionOrder ==
    /\ [](latest_detections.version <= latest_frame.version)
    /\ [][/\ latest_frame'.version >= latest_frame.version
          /\ latest_detections'.version >= latest_detections.version
          /\ detT'.version >= detT.version
          /\ mainT'.frame_version >= mainT.frame_version
          /\ mainT'.det_version >= mainT.det_version]_vars

\* detection has caught up with the second frame and main has read the
\* detections slot twice, last at version 2
C38_Witness ==
    /\ latest_frame.version = 2
    /\ latest_detections.version = 2
    /\ mainT.dreads = 2
    /\ mainT.det_version = 2
    /\ mainT.frame_version = 2
    /\ detT.version = 2

====
